---------------------------- MODULE Spec2Model ----------------------------
(***************************************************************************)
(* Price-data adapters DS_1INCH_ETH, DS_ARKEN_ETH, DS_1INCH_BSC and        *)
(* DS_ARKEN_BSC: one invocation of a script, from argv to the printed line *)
(* (or the error message) and the exit status.                             *)
(*                                                                         *)
(* Strings the code inspects character by character (addresses, price      *)
(* strings, the output line) are sequences of one-character strings.       *)
(* Symbols are only compared for equality and stay TLA+ strings.           *)
(***************************************************************************)
EXTENDS Integers, Sequences, FiniteSets, TLC

VARIABLES
    adapter,      \* which of the four scripts runs
    symbols,      \* sys.argv[1:]
    pc,           \* position of the single thread of control
    addrs,        \* get_price_map: the address collection handed to the fetcher
    requests,     \* outbound GETs issued so far, each the address list of its URL
    prices,       \* the decoded response body: ordered (address, price) entries
    price_map,    \* the defaultdict built by get_price_map
    stdout,       \* lines written to the success stream
    stderr,       \* lines written to the error stream
    exit_status   \* <<>> while running, <<0>> or <<1>> once the process ended

vars == <<adapter, symbols, pc, addrs, requests, prices, price_map,
          stdout, stderr, exit_status>>

\* ------------------------------------------------------------------ bounds

\* Longest argv[1:] explored.
MaxSymbols == 2

\* Most entries in a provider response explored.
MaxEntries == 2

\* ------------------------------------------------------- the address tables

Adapters == {"1INCH_ETH", "ARKEN_ETH", "1INCH_BSC", "ARKEN_BSC"}

SYMBOLS_TO_ADDRS_1INCH_ETH ==
    [s \in {"WBTC", "ETH", "stETH", "wstETH", "WETH", "XOR", "RLB", "VAL", "PSWAP", "XST", "MUTE", "MTRG"} |->
        CASE s = "WBTC" ->
            <<"0","x","2","2","6","0","f","a","c","5","e","5","5","4","2","a","7","7","3","a","a","4","4","f","b","c","f","e","d","f","7","c","1","9","3","b","c","2","c","5","9","9">>
          [] s = "ETH" ->
            <<"0","x","e","e","e","e","e","e","e","e","e","e","e","e","e","e","e","e","e","e","e","e","e","e","e","e","e","e","e","e","e","e","e","e","e","e","e","e","e","e","e","e">>
          [] s = "stETH" ->
            <<"0","x","a","e","7","a","b","9","6","5","2","0","d","e","3","a","1","8","e","5","e","1","1","1","b","5","e","a","a","b","0","9","5","3","1","2","d","7","f","e","8","4">>
          [] s = "wstETH" ->
            <<"0","x","7","f","3","9","c","5","8","1","f","5","9","5","b","5","3","c","5","c","b","1","9","b","d","0","b","3","f","8","d","a","6","c","9","3","5","e","2","c","a","0">>
          [] s = "WETH" ->
            <<"0","x","c","0","2","a","a","a","3","9","b","2","2","3","f","e","8","d","0","a","0","e","5","c","4","f","2","7","e","a","d","9","0","8","3","c","7","5","6","c","c","2">>
          [] s = "XOR" ->
            <<"0","x","4","0","f","d","7","2","2","5","7","5","9","7","a","a","1","4","c","7","2","3","1","a","7","b","1","a","a","a","2","9","f","c","e","8","6","8","f","6","7","7">>
          [] s = "RLB" ->
            <<"0","x","0","4","6","e","e","e","2","c","c","3","1","8","8","0","7","1","c","0","2","b","f","c","1","7","4","5","a","6","b","1","7","c","6","5","6","e","3","f","3","d">>
          [] s = "VAL" ->
            <<"0","x","e","8","8","f","8","3","1","3","e","6","1","a","9","7","c","e","c","1","8","7","1","e","e","3","7","f","b","b","e","2","a","8","b","f","3","e","d","1","e","4">>
          [] s = "PSWAP" ->
            <<"0","x","5","1","9","c","1","0","0","1","d","5","5","0","c","0","a","1","d","a","e","7","d","1","f","c","2","2","0","f","7","d","1","4","c","2","a","5","2","1","b","b">>
          [] s = "XST" ->
            <<"0","x","C","6","0","D","6","6","6","2","0","2","7","F","5","7","9","7","C","f","8","7","3","b","F","e","8","0","B","c","F","0","4","8","e","3","0","F","c","3","5","e">>
          [] s = "MUTE" ->
            <<"0","x","a","4","9","d","7","4","9","9","2","7","1","a","e","7","1","c","d","8","a","b","9","a","c","5","1","5","e","6","6","9","4","c","7","5","5","d","4","0","0","c">>
          [] s = "MTRG" ->
            <<"0","x","B","d","2","9","4","9","F","6","7","D","c","d","C","5","4","9","c","6","E","b","e","9","8","6","9","6","4","4","9","F","a","7","9","D","9","8","8","A","9","F">>
    ]

SYMBOLS_TO_ADDRS_ARKEN_ETH ==
    [s \in {"WBTC", "stETH", "wstETH", "WETH", "XOR", "RLB", "VAL", "PSWAP", "XST", "MUTE", "MTRG"} |->
        CASE s = "WBTC" ->
            <<"0","x","2","2","6","0","f","a","c","5","e","5","5","4","2","a","7","7","3","a","a","4","4","f","b","c","f","e","d","f","7","c","1","9","3","b","c","2","c","5","9","9">>
          [] s = "stETH" ->
            <<"0","x","a","e","7","a","b","9","6","5","2","0","d","e","3","a","1","8","e","5","e","1","1","1","b","5","e","a","a","b","0","9","5","3","1","2","d","7","f","e","8","4">>
          [] s = "wstETH" ->
            <<"0","x","7","f","3","9","c","5","8","1","f","5","9","5","b","5","3","c","5","c","b","1","9","b","d","0","b","3","f","8","d","a","6","c","9","3","5","e","2","c","a","0">>
          [] s = "WETH" ->
            <<"0","x","c","0","2","a","a","a","3","9","b","2","2","3","f","e","8","d","0","a","0","e","5","c","4","f","2","7","e","a","d","9","0","8","3","c","7","5","6","c","c","2">>
          [] s = "XOR" ->
            <<"0","x","4","0","f","d","7","2","2","5","7","5","9","7","a","a","1","4","c","7","2","3","1","a","7","b","1","a","a","a","2","9","f","c","e","8","6","8","f","6","7","7">>
          [] s = "RLB" ->
            <<"0","x","0","4","6","e","e","e","2","c","c","3","1","8","8","0","7","1","c","0","2","b","f","c","1","7","4","5","a","6","b","1","7","c","6","5","6","e","3","f","3","d">>
          [] s = "VAL" ->
            <<"0","x","e","8","8","f","8","3","1","3","e","6","1","a","9","7","c","e","c","1","8","7","1","e","e","3","7","f","b","b","e","2","a","8","b","f","3","e","d","1","e","4">>
          [] s = "PSWAP" ->
            <<"0","x","5","1","9","c","1","0","0","1","d","5","5","0","c","0","a","1","d","a","e","7","d","1","f","c","2","2","0","f","7","d","1","4","c","2","a","5","2","1","b","b">>
          [] s = "XST" ->
            <<"0","x","C","6","0","D","6","6","6","2","0","2","7","F","5","7","9","7","C","f","8","7","3","b","F","e","8","0","B","c","F","0","4","8","e","3","0","F","c","3","5","e">>
          [] s = "MUTE" ->
            <<"0","x","a","4","9","d","7","4","9","9","2","7","1","a","e","7","1","c","d","8","a","b","9","a","c","5","1","5","e","6","6","9","4","c","7","5","5","d","4","0","0","c">>
          [] s = "MTRG" ->
            <<"0","x","b","d","2","9","4","9","f","6","7","d","c","d","c","5","4","9","c","6","e","b","e","9","8","6","9","6","4","4","9","f","a","7","9","d","9","8","8","a","9","f">>
    ]

SYMBOLS_TO_ADDRS_1INCH_BSC ==
    [s \in {"BETH", "PHB", "VC"} |->
        CASE s = "BETH" ->
            <<"0","x","2","5","0","6","3","2","3","7","8","e","5","7","3","c","6","b","e","1","a","c","2","f","9","7","f","c","d","f","0","0","5","1","5","d","0","a","a","9","1","b">>
          [] s = "PHB" ->
            <<"0","x","0","4","0","9","6","3","3","A","7","2","D","8","4","6","f","c","5","B","B","e","2","f","9","8","D","8","8","5","6","4","D","3","5","9","8","7","9","0","4","D">>
          [] s = "VC" ->
            <<"0","x","2","b","f","8","3","d","0","8","0","d","8","b","c","4","7","1","5","9","8","4","e","7","5","e","5","b","3","d","1","4","9","8","0","5","d","1","1","7","5","1">>
    ]

SYMBOLS_TO_ADDRS_ARKEN_BSC ==
    [s \in {"BETH", "PHB"} |->
        CASE s = "BETH" ->
            <<"0","x","2","5","0","6","3","2","3","7","8","e","5","7","3","c","6","b","e","1","a","c","2","f","9","7","f","c","d","f","0","0","5","1","5","d","0","a","a","9","1","b">>
          [] s = "PHB" ->
            <<"0","x","0","4","0","9","6","3","3","A","7","2","D","8","4","6","f","c","5","B","B","e","2","f","9","8","D","8","8","5","6","4","D","3","5","9","8","7","9","0","4","D">>
    ]

SYMBOLS_TO_ADDRS(a) ==
    CASE a = "1INCH_ETH" -> SYMBOLS_TO_ADDRS_1INCH_ETH
      [] a = "ARKEN_ETH" -> SYMBOLS_TO_ADDRS_ARKEN_ETH
      [] a = "1INCH_BSC" -> SYMBOLS_TO_ADDRS_1INCH_BSC
      [] a = "ARKEN_BSC" -> SYMBOLS_TO_ADDRS_ARKEN_BSC

\* The ARKEN scripts substitute "WETH" for "ETH"; the 1INCH scripts do not.
UsesAlias(a) == a \in {"ARKEN_ETH", "ARKEN_BSC"}

\* ------------------------------------------------------------ str methods

\* str.lower() on one character (the letters an address can hold).
LowerChar(c) ==
    CASE c = "A" -> "a" [] c = "B" -> "b" [] c = "C" -> "c"
      [] c = "D" -> "d" [] c = "E" -> "e" [] c = "F" -> "f"
      [] c = "X" -> "x"
      [] OTHER -> c

\* A faulty lower() that leaves the string as it is.
LowerUnchanged(s) == s

\* str.lower()
Lower(s) == [i \in 1..Len(s) |-> LowerChar(s[i])]

\* A faulty rstrip that removes at most one trailing character.
RStripOnce(s, c) ==
    IF Len(s) > 0 /\ s[Len(s)] = c THEN SubSeq(s, 1, Len(s) - 1) ELSE s

\* str.rstrip(c) for a one-character c: drops every trailing c.
RECURSIVE RStrip(_, _)
RStrip(s, c) ==
    IF Len(s) > 0 /\ s[Len(s)] = c
    THEN RStrip(SubSeq(s, 1, Len(s) - 1), c)
    ELSE s

\* sep.join(fields)
RECURSIVE Join(_, _)
Join(sep, fields) ==
    IF fields = <<>> THEN <<>>
    ELSE IF Len(fields) = 1 THEN fields[1]
    ELSE Head(fields) \o sep \o Join(sep, Tail(fields))

\* ------------------------------------------------------------------ Decimal

\* A finite Decimal: sign, integer part, the first nine fractional digits as a
\* number (nano) and the tenth fractional digit (sub).  Its value is
\* (-1)^neg * (int + nano / 10^9 + sub / 10^10); the sign is kept on zero, as
\* Decimal keeps it.
FracDigits == 9

RECURSIVE Pow10(_)
Pow10(n) == IF n = 0 THEN 1 ELSE 10 * Pow10(n - 1)

Giga == Pow10(FracDigits)

Dec(neg, int, nano, sub) == [neg |-> neg, int |-> int, nano |-> nano, sub |-> sub]

\* price < 0
IsNegative(p) == p.neg /\ (p.int > 0 \/ p.nano > 0 \/ p.sub > 0)

DigitChar(d) == <<"0", "1", "2", "3", "4", "5", "6", "7", "8", "9">>[d + 1]

\* The decimal digits of a natural number, "0" for zero.
RECURSIVE Digits(_)
Digits(n) == IF n < 10 THEN <<DigitChar(n)>> ELSE Digits(n \div 10) \o <<DigitChar(n % 10)>>

\* The decimal digits of n, zero-padded on the left to width w.
RECURSIVE PadDigits(_, _)
PadDigits(n, w) == IF w = 0 THEN <<>> ELSE PadDigits(n \div 10, w - 1) \o <<DigitChar(n % 10)>>

\* Rounding to nine fractional digits, ties to even (the default context's
\* ROUND_HALF_EVEN), as format's ".9f" does.
Quantize(p) ==
    LET up == p.sub > 5 \/ (p.sub = 5 /\ p.nano % 2 = 1)
        n  == IF up THEN p.nano + 1 ELSE p.nano
    IN  IF n = Giga
        THEN [neg |-> p.neg, int |-> p.int + 1, nano |-> 0]
        ELSE [neg |-> p.neg, int |-> p.int, nano |-> n]

\* "{:.9f}".format(price)
FixedPoint9(p) ==
    LET q == Quantize(p)
    IN  (IF q.neg THEN <<"-">> ELSE <<>>) \o Digits(q.int) \o <<".">> \o PadDigits(q.nano, FracDigits)

\* "{:.9f}".format(price).rstrip("0").rstrip(".")
Format(p) == RStrip(RStrip(FixedPoint9(p), "0"), ".")

\* ------------------------------------------------------------ get_price_map

Range(f) == {f[i] : i \in DOMAIN f}

\* The orders in which list(a_set) can enumerate a set (hash order).
ListOf(S) == {l \in [1..Cardinality(S) -> S] : Range(l) = S}

\* 1INCH: addrs = []; one append per requested symbol found in the table.
RECURSIVE AddrsAppended(_, _)
AddrsAppended(a, syms) ==
    IF syms = <<>> THEN <<>>
    ELSE (IF Head(syms) \in DOMAIN SYMBOLS_TO_ADDRS(a)
          THEN <<SYMBOLS_TO_ADDRS(a)[Head(syms)]>>
          ELSE <<>>) \o AddrsAppended(a, Tail(syms))

\* ARKEN: addrs = set(); "ETH" is looked up as "WETH"; one add per requested
\* symbol found in the table.
AddrsAdded(a, syms) ==
    LET looked_up == {IF s = "ETH" THEN "WETH" ELSE s : s \in Range(syms)}
    IN  {SYMBOLS_TO_ADDRS(a)[s] : s \in looked_up \cap DOMAIN SYMBOLS_TO_ADDRS(a)}

\* {v.lower(): k for k, v in T.items()}; no two addresses of a table agree
\* in lower case, so no key of the comprehension is assigned twice.
Reversed(T) ==
    [x \in {Lower(T[k]) : k \in DOMAIN T} |-> CHOOSE k \in DOMAIN T : Lower(T[k]) = x]

addrs_to_symbols_1INCH_ETH == Reversed(SYMBOLS_TO_ADDRS_1INCH_ETH)

addrs_to_symbols_ARKEN_ETH == Reversed(SYMBOLS_TO_ADDRS_ARKEN_ETH)

addrs_to_symbols_1INCH_BSC == Reversed(SYMBOLS_TO_ADDRS_1INCH_BSC)

addrs_to_symbols_ARKEN_BSC == Reversed(SYMBOLS_TO_ADDRS_ARKEN_BSC)

addrs_to_symbols(a) ==
    CASE a = "1INCH_ETH" -> addrs_to_symbols_1INCH_ETH
      [] a = "ARKEN_ETH" -> addrs_to_symbols_ARKEN_ETH
      [] a = "1INCH_BSC" -> addrs_to_symbols_1INCH_BSC
      [] a = "ARKEN_BSC" -> addrs_to_symbols_ARKEN_BSC

\* defaultdict(lambda: "-"): the value of a key never assigned.
Sentinel == <<"-">>

\* price_map[k] = v
Store(pm, k, v) == [x \in DOMAIN pm \cup {k} |-> IF x = k THEN v ELSE pm[x]]

\* A faulty default: a missing price reads as zero.
LookupZero(pm, k) == IF k \in DOMAIN pm THEN pm[k] ELSE <<"0">>

\* The value of the expression price_map[k].
Lookup(pm, k) == IF k \in DOMAIN pm THEN pm[k] ELSE Sentinel

\* The defaultdict after evaluating price_map[k]: a missing key is inserted.
Touch(pm, k) == IF k \in DOMAIN pm THEN pm ELSE Store(pm, k, Lookup(pm, k))

\* A faulty loop that validates nothing and skips negative prices.
RECURSIVE ResolveSkipNegative(_, _, _)
ResolveSkipNegative(a, entries, pm) ==
    IF entries = <<>> THEN [raised |-> FALSE, map |-> pm]
    ELSE LET addr == Lower(Head(entries).addr)
         IN  IF addr \in DOMAIN addrs_to_symbols(a) /\ ~IsNegative(Head(entries).price)
             THEN ResolveSkipNegative(a, Tail(entries),
                      Store(pm, addrs_to_symbols(a)[addr], Format(Head(entries).price)))
             ELSE ResolveSkipNegative(a, Tail(entries), pm)

\* for addr, rate in prices.items(): ... ; raised tells whether the loop ended
\* in raise Exception("Negative number returned").
RECURSIVE Resolve(_, _, _)
Resolve(a, entries, pm) ==
    IF entries = <<>> THEN [raised |-> FALSE, map |-> pm]
    ELSE LET addr == Lower(Head(entries).addr)
         IN  IF addr \in DOMAIN addrs_to_symbols(a)
             THEN IF IsNegative(Head(entries).price)
                  THEN [raised |-> TRUE, map |-> pm]
                  ELSE Resolve(a, Tail(entries),
                           Store(pm, addrs_to_symbols(a)[addr], Format(Head(entries).price)))
             ELSE Resolve(a, Tail(entries), pm)

\* A faulty back-fill that copies only a price WETH was itself asked for.
AliasFillIfRequested(pm, syms) ==
    IF "ETH" \in Range(syms) /\ "WETH" \in Range(syms)
    THEN Store(Touch(pm, "WETH"), "ETH", Lookup(pm, "WETH"))
    ELSE pm

\* if "ETH" in symbols: price_map["ETH"] = price_map["WETH"]
AliasFill(pm, syms) ==
    IF "ETH" \in Range(syms)
    THEN Store(Touch(pm, "WETH"), "ETH", Lookup(pm, "WETH"))
    ELSE pm

\* A faulty main that renders each distinct symbol once.
MainDistinct(pm, syms) ==
    LET RECURSIVE Seen(_, _)
        Seen(rest, done) ==
            IF rest = <<>> THEN <<>>
            ELSE IF Head(rest) \in done THEN Seen(Tail(rest), done)
            ELSE <<Lookup(pm, Head(rest))>> \o Seen(Tail(rest), done \cup {Head(rest)})
    IN  Join(<<",">>, Seen(syms, {}))

\* ",".join([price_map[symbol] for symbol in symbols])
Main(pm, syms) == Join(<<",">>, [i \in 1..Len(syms) |-> Lookup(pm, syms[i])])

\* ------------------------------------------------------------ the inputs

\* The symbols argv is drawn from: for each script a symbol priced under its
\* own address, one stored in mixed case, the alias symbol and one no table has.
ArgSymbols(a) ==
    IF a \in {"1INCH_ETH", "ARKEN_ETH"} THEN {"ETH", "WETH", "XST", "DOGE"}
    ELSE {"ETH", "PHB", "VC"}

SymbolLists(a) == UNION {[1..n -> ArgSymbols(a)] : n \in 0..MaxSymbols}

\* The table addresses of XST and PHB in lower case, as a provider may echo them.
XST_lower == <<"0","x","c","6","0","d","6","6","6","2","0","2","7","f","5","7","9","7","c","f","8","7","3","b","f","e","8","0","b","c","f","0","4","8","e","3","0","f","c","3","5","e">>

PHB_lower == <<"0","x","0","4","0","9","6","3","3","a","7","2","d","8","4","6","f","c","5","b","b","e","2","f","9","8","d","8","8","5","6","4","d","3","5","9","8","7","9","0","4","d">>

\* The keys a response is drawn from: addresses of the script's table as stored,
\* the same in another letter case, and one address the table does not hold.
ReplyAddrs(a) ==
    CASE a = "1INCH_ETH" ->
            {SYMBOLS_TO_ADDRS_1INCH_ETH["ETH"], SYMBOLS_TO_ADDRS_1INCH_ETH["XST"],
             XST_lower, SYMBOLS_TO_ADDRS_1INCH_BSC["BETH"]}
      [] a = "ARKEN_ETH" ->
            {SYMBOLS_TO_ADDRS_ARKEN_ETH["WETH"], SYMBOLS_TO_ADDRS_ARKEN_ETH["XST"],
             XST_lower, SYMBOLS_TO_ADDRS_1INCH_ETH["ETH"]}
      [] a = "1INCH_BSC" ->
            {SYMBOLS_TO_ADDRS_1INCH_BSC["PHB"], PHB_lower,
             SYMBOLS_TO_ADDRS_1INCH_BSC["VC"], SYMBOLS_TO_ADDRS_1INCH_ETH["WBTC"]}
      [] a = "ARKEN_BSC" ->
            {SYMBOLS_TO_ADDRS_ARKEN_BSC["PHB"], PHB_lower,
             SYMBOLS_TO_ADDRS_1INCH_BSC["VC"]}

\* The prices a response is drawn from: -0.0000000001, 1.23 and 5.
ReplyPrices == {Dec(TRUE, 0, 0, 1), Dec(FALSE, 1, 230000000, 0), Dec(FALSE, 5, 0, 0)}

\* The prices of the formatting runs: zero of either sign, the smallest
\* representable step, ties and near-ties of the tenth digit, a carry into the
\* integer part, integers ending in zeros, and short and long fractions.
FinePrices ==
    {Dec(FALSE, 0, 0, 0), Dec(TRUE, 0, 0, 0), Dec(FALSE, 0, 1, 0),
     Dec(FALSE, 0, 0, 4), Dec(FALSE, 0, 0, 5), Dec(FALSE, 0, 0, 6),
     Dec(FALSE, 0, 1, 5), Dec(FALSE, 0, 2, 5), Dec(FALSE, 0, 999999999, 5),
     Dec(FALSE, 1, 230000000, 0), Dec(FALSE, 5, 0, 0), Dec(FALSE, 100, 0, 0),
     Dec(FALSE, 10, 500000000, 0), Dec(FALSE, 120, 30500000, 0),
     Dec(FALSE, 0, 100000000, 0), Dec(FALSE, 1, 500000000, 0),
     Dec(FALSE, 2, 0, 0), Dec(FALSE, 7, 123456789, 9)}

Entries(a, P) == {[addr |-> k, price |-> p] : k \in ReplyAddrs(a), p \in P}

\* A decoded JSON object: its keys are pairwise different strings.
RepliesOf(a, P, n) ==
    {r \in UNION {[1..m -> Entries(a, P)] : m \in 0..n} :
        \A i, j \in 1..Len(r) : r[i].addr = r[j].addr => i = j}

Replies == [a \in Adapters |-> RepliesOf(a, ReplyPrices, MaxEntries)]

FineReplies == [a \in Adapters |-> RepliesOf(a, FinePrices, 1)]

\* ------------------------------------------------------------ the process

Init ==
    /\ adapter \in Adapters
    /\ symbols \in SymbolLists(adapter)
    /\ pc = "main"
    /\ addrs = <<>>
    /\ requests = <<>>
    /\ prices = <<>>
    /\ price_map = <<>>
    /\ stdout = <<>>
    /\ stderr = <<>>
    /\ exit_status = <<>>

\* A faulty handler that reports the error and exits with status 0.
ExceptExitZero(message) ==
    /\ stderr' = Append(stderr, message)
    /\ exit_status' = <<0>>
    /\ pc' = "done"
    /\ UNCHANGED <<stdout, price_map>>

\* __main__: except Exception as e: print(str(e), file=sys.stderr); sys.exit(1)
Except(message) ==
    /\ stderr' = Append(stderr, message)
    /\ exit_status' = <<1>>
    /\ pc' = "done"
    /\ UNCHANGED <<stdout, price_map>>

\* get_price_map, up to the call of get_prices_from_addrs.
BuildAddrs ==
    /\ pc = "main"
    /\ addrs' \in (IF UsesAlias(adapter)
                   THEN ListOf(AddrsAdded(adapter, symbols))
                   ELSE {AddrsAppended(adapter, symbols)})
    /\ pc' = "fetch"
    /\ UNCHANGED <<adapter, symbols, requests, prices, price_map, stdout, stderr, exit_status>>

\* A faulty fetcher that answers an empty address list itself, without a request.
SendRequestUnlessEmpty ==
    /\ pc = "fetch"
    /\ requests' = IF addrs = <<>> THEN requests ELSE Append(requests, addrs)
    /\ pc' = "await"
    /\ UNCHANGED <<adapter, symbols, addrs, prices, price_map, stdout, stderr, exit_status>>

\* get_prices_from_addrs: requests.get(URL + ",".join(addrs), ...)
SendRequest ==
    /\ pc = "fetch"
    /\ requests' = Append(requests, addrs)
    /\ pc' = "await"
    /\ UNCHANGED <<adapter, symbols, addrs, prices, price_map, stdout, stderr, exit_status>>

\* get_prices_from_addrs returns r.json(), one of the responses R.
Receive(R) ==
    /\ pc = "await"
    /\ prices' \in R
    /\ pc' = "normalize"
    /\ UNCHANGED <<adapter, symbols, addrs, requests, price_map, stdout, stderr, exit_status>>

ReceiveOk == Receive(Replies[adapter])

ReceiveOkFine == Receive(FineReplies[adapter])

\* requests.get or r.raise_for_status() raises; the exception reaches __main__.
ReceiveError ==
    /\ pc = "await"
    /\ Except("HTTPError")
    /\ UNCHANGED <<adapter, symbols, addrs, requests, prices>>

\* get_price_map: the loop over prices.items().
Normalize ==
    /\ pc = "normalize"
    /\ LET r == Resolve(adapter, prices, <<>>)
       IN  IF r.raised
           THEN Except("Negative number returned")
           ELSE /\ price_map' = r.map
                /\ pc' = IF UsesAlias(adapter) THEN "alias" ELSE "join"
                /\ UNCHANGED <<stdout, stderr, exit_status>>
    /\ UNCHANGED <<adapter, symbols, addrs, requests, prices>>

\* ARKEN get_price_map: the alias back-fill and the return.
AliasBackfill ==
    /\ pc = "alias"
    /\ price_map' = AliasFill(price_map, symbols)
    /\ pc' = "join"
    /\ UNCHANGED <<adapter, symbols, addrs, requests, prices, stdout, stderr, exit_status>>

\* A faulty main that raises KeyError for a symbol without a price.
PrintMainKeyError ==
    /\ pc = "join"
    /\ IF \A i \in 1..Len(symbols) : symbols[i] \in DOMAIN price_map
       THEN /\ stdout' = Append(stdout, Main(price_map, symbols))
            /\ exit_status' = <<0>>
            /\ pc' = "done"
            /\ UNCHANGED <<stderr, price_map>>
       ELSE Except("KeyError")
    /\ UNCHANGED <<adapter, symbols, addrs, requests, prices>>

\* main renders the line, __main__ prints it and the script ends.
PrintMain ==
    /\ pc = "join"
    /\ stdout' = Append(stdout, Main(price_map, symbols))
    /\ price_map' = [s \in DOMAIN price_map \cup Range(symbols) |-> Lookup(price_map, s)]
    /\ exit_status' = <<0>>
    /\ pc' = "done"
    /\ UNCHANGED <<adapter, symbols, addrs, requests, prices, stderr>>

Next ==
    \/ BuildAddrs
    \/ SendRequest
    \/ ReceiveOk
    \/ ReceiveError
    \/ Normalize
    \/ AliasBackfill
    \/ PrintMain

Spec == Init /\ [][Next]_vars

NextFormat ==
    \/ BuildAddrs
    \/ SendRequest
    \/ ReceiveOkFine
    \/ ReceiveError
    \/ Normalize
    \/ AliasBackfill
    \/ PrintMain

SpecFormat == Init /\ [][NextFormat]_vars

\* ------------------------------------------------------------ the properties

\* What the statements below say about a run, written without the operators
\* of the model: a letter-case fold of their own (two addresses are the same
\* up to letter case when their folds are equal), the position of the last
\* response entry of an address, and the fields of the printed line.

FoldChar(c) ==
    CASE c = "a" -> "A" [] c = "b" -> "B" [] c = "c" -> "C"
      [] c = "d" -> "D" [] c = "e" -> "E" [] c = "f" -> "F"
      [] c = "x" -> "X"
      [] OTHER -> c

Fold(x) == [i \in 1..Len(x) |-> FoldChar(x[i])]

\* The fold of every address a response can hold and of every table address.
KeyFold == [k \in UNION {ReplyAddrs(a) : a \in Adapters} |-> Fold(k)]

TableFold ==
    [a \in Adapters |-> [s \in DOMAIN SYMBOLS_TO_ADDRS(a) |-> Fold(SYMBOLS_TO_ADDRS(a)[s])]]

Table == SYMBOLS_TO_ADDRS(adapter)

\* The response entries whose key is the table address of symbol s up to case.
Matches(s) ==
    IF s \in DOMAIN Table
    THEN {k \in 1..Len(prices) : KeyFold[prices[k].addr] = TableFold[adapter][s]}
    ELSE {}

LastOf(S) == CHOOSE k \in S : \A j \in S : j <= k

BelowZero(p) == p.neg /\ p.int + p.nano + p.sub > 0

\* Some response entry of a table address carries a price below zero.
KnownNegative ==
    \E s \in DOMAIN Table : \E k \in Matches(s) : BelowZero(prices[k].price)

Dash == <<"-">>

\* The price string of symbol s: that of the last response entry of its
\* address, the sentinel without one.
PriceOf(s) ==
    IF Matches(s) = {} THEN Dash ELSE Format(prices[LastOf(Matches(s))].price)

\* The fields of a comma-joined line; the line of no field is the empty line.
RECURSIVE Split(_)
Split(s) ==
    IF \A i \in 1..Len(s) : s[i] # ","
    THEN <<s>>
    ELSE LET k == CHOOSE i \in 1..Len(s) : s[i] = "," /\ \A j \in 1..(i - 1) : s[j] # ","
         IN  <<SubSeq(s, 1, k - 1)>> \o Split(SubSeq(s, k + 1, Len(s)))

FieldsOf(line) == IF line = <<>> THEN <<>> ELSE Split(line)

Succeeded == pc = "done" /\ exit_status = <<0>>

Failed == pc = "done" /\ exit_status = <<1>>

OutFields == FieldsOf(stdout[1])

\* C1: a successful invocation prints one line of exactly Len(symbols)
\* comma-separated fields, and field i is the price string or the sentinel of
\* symbols[i] (for "ETH" under ARKEN, that of "WETH"), in all four adapters.
C1_OrderedFields ==
    Succeeded =>
        /\ Len(stdout) = 1
        /\ Len(OutFields) = Len(symbols)
        /\ \A i \in 1..Len(symbols) :
              OutFields[i] = PriceOf(IF UsesAlias(adapter) /\ symbols[i] = "ETH"
                                     THEN "WETH" ELSE symbols[i])

\* C1 witness: a repeated symbol is printed twice, with its price.
C1_Witness ==
    /\ Succeeded
    /\ Len(symbols) = 2
    /\ symbols[1] = symbols[2]
    /\ OutFields = <<PriceOf(symbols[1]), PriceOf(symbols[1])>>
    /\ PriceOf(symbols[1]) # Dash

\* C2 as stated: every response holding a price below zero makes the
\* invocation fail without an output line.
C2_AnyNegativeFails ==
    (pc = "done" /\ \E k \in 1..Len(prices) : BelowZero(prices[k].price))
        => (exit_status = <<1>> /\ stdout = <<>>)

\* C2 amended: a price below zero under a key that is a table address up to
\* letter case makes get_price_map raise: the invocation fails with the
\* message of the raise and prints no line, whatever was requested.
C2_KnownNegativeFails ==
    /\ (pc \in {"alias", "join"} => ~KnownNegative)
    /\ (pc = "done" /\ KnownNegative) =>
          /\ exit_status = <<1>>
          /\ stdout = <<>>
          /\ stderr = <<"Negative number returned">>

\* C2 witness: a failure on a negative price of a symbol nobody asked for,
\* next to a valid price of the symbol that was asked for.
C2_Witness ==
    /\ Failed
    /\ stderr = <<"Negative number returned">>
    /\ \E s \in DOMAIN Table : \E k \in Matches(s) :
          BelowZero(prices[k].price) /\ s \notin Range(symbols)
    /\ \E i \in 1..Len(symbols) : \E k \in Matches(symbols[i]) :
          ~BelowZero(prices[k].price)

\* C3 as stated: a requested symbol that is no key of the table yields "-".
C3_UnknownIsDash ==
    Succeeded =>
        \A i \in 1..Len(symbols) :
            symbols[i] \notin DOMAIN Table => OutFields[i] = Dash

\* C3 amended: a requested symbol that is no key of the table yields "-",
\* except "ETH" under an ARKEN adapter, which yields what "WETH" yields.
C3_UnknownIsDashButAlias ==
    Succeeded =>
        \A i \in 1..Len(symbols) :
            symbols[i] \notin DOMAIN Table =>
                OutFields[i] = IF UsesAlias(adapter) /\ symbols[i] = "ETH"
                               THEN PriceOf("WETH") ELSE Dash

\* C3 witness: an ARKEN run that prints "-" for a symbol of no table and the
\* WETH price for "ETH".
C3_Witness ==
    /\ Succeeded
    /\ UsesAlias(adapter)
    /\ symbols = <<"DOGE", "ETH">>
    /\ "ETH" \notin DOMAIN Table
    /\ OutFields[1] = Dash
    /\ OutFields[2] # Dash

C5_EveryMatchingKeyShows ==
    Succeeded =>
        \A s \in DOMAIN Table : \A k \in Matches(s) : \A i \in 1..Len(symbols) :
            symbols[i] = s => OutFields[i] = Format(prices[k].price)

\* C5 amended: matching is case-insensitive, and of the response keys equal
\* to a table address up to letter case the last one in response order puts
\* its formatted price into the field of that address's symbol.
C5_LastMatchingKeyShows ==
    Succeeded =>
        \A s \in DOMAIN Table : \A i \in 1..Len(symbols) :
            (symbols[i] = s /\ Matches(s) # {})
                => OutFields[i] = Format(prices[LastOf(Matches(s))].price)

\* C5 witness: a price printed for a key that differs from the stored
\* address in letter case.
C5_Witness ==
    /\ Succeeded
    /\ \E i \in 1..Len(symbols) :
          /\ Cardinality(Matches(symbols[i])) = 1
          /\ \A k \in Matches(symbols[i]) :
                /\ prices[k].addr # Table[symbols[i]]
                /\ OutFields[i] = Format(prices[k].price)
                /\ OutFields[i] # Dash

\* C6: until it ends an invocation has written nothing; it ends either with
\* one complete line on the success stream, nothing on the error stream and
\* status 0, or with one message on the error stream, nothing on the success
\* stream and status 1, the latter exactly on a transport error or a negative
\* price of a table address.
C6_TwoOutcomes ==
    /\ pc # "done" => (stdout = <<>> /\ stderr = <<>> /\ exit_status = <<>>)
    /\ pc = "done" =>
          \/ /\ exit_status = <<0>>
             /\ Len(stdout) = 1
             /\ Len(OutFields) = Len(symbols)
             /\ stderr = <<>>
             /\ ~KnownNegative
          \/ /\ exit_status = <<1>>
             /\ stdout = <<>>
             /\ \/ stderr = <<"HTTPError">>
                \/ stderr = <<"Negative number returned">> /\ KnownNegative

\* C6 witness: a failure on a negative price, with an empty success stream.
C6_Witness ==
    /\ Failed
    /\ stdout = <<>>
    /\ stderr = <<"Negative number returned">>
    /\ Len(symbols) = 2

\* C7: a requested table symbol whose address is no key of the response, up
\* to letter case, yields "-", and an invocation whose response arrived with
\* no negative price of a table address succeeds.
C7_MissingPriceIsDash ==
    /\ Succeeded =>
          \A i \in 1..Len(symbols) :
              (symbols[i] \in DOMAIN Table /\ Matches(symbols[i]) = {})
                  => OutFields[i] = Dash
    /\ (pc = "done" /\ stderr # <<"HTTPError">> /\ ~KnownNegative) => Succeeded

\* C7 witness: a success that prints "-" for a table symbol the response
\* does not price, next to a price for another symbol.
C7_Witness ==
    /\ Succeeded
    /\ Len(symbols) = 2
    /\ symbols[1] \in DOMAIN Table
    /\ Matches(symbols[1]) = {}
    /\ OutFields[1] = Dash
    /\ OutFields[2] # Dash

\* The number a string of decimal digits writes.
RECURSIVE NatOf(_)
NatOf(ds) ==
    IF ds = <<>> THEN 0
    ELSE 10 * NatOf(SubSeq(ds, 1, Len(ds) - 1))
         + (CHOOSE d \in 0..9 : DigitChar(d) = ds[Len(ds)])

\* The value a price string writes: sign, integer part and nanos.
ValueOf(str) ==
    LET neg  == str # <<>> /\ str[1] = "-"
        body == IF neg THEN Tail(str) ELSE str
        dot  == {i \in 1..Len(body) : body[i] = "."}
        cut  == IF dot = {} THEN Len(body) + 1 ELSE CHOOSE i \in dot : TRUE
        frac == SubSeq(body, cut + 1, Len(body))
    IN  [neg |-> neg, int |-> NatOf(SubSeq(body, 1, cut - 1)),
         nano |-> NatOf(frac) * Pow10(9 - Len(frac))]

\* The multiple of 10^-9 nearest to p, the even one of two equally near.
Nearest(p) ==
    LET up == 2 * p.sub > 10 \/ (2 * p.sub = 10 /\ p.nano % 2 # 0)
    IN  IF ~up THEN [neg |-> p.neg, int |-> p.int, nano |-> p.nano]
        ELSE IF p.nano = 999999999 THEN [neg |-> p.neg, int |-> p.int + 1, nano |-> 0]
        ELSE [neg |-> p.neg, int |-> p.int, nano |-> p.nano + 1]

\* The price string stored for the one entry of a formatting run.
Stored == price_map[CHOOSE s \in DOMAIN Table : Matches(s) # {}]

Resolved ==
    /\ pc \in {"alias", "join", "done"}
    /\ exit_status # <<1>>
    /\ \E s \in DOMAIN Table : Matches(s) # {}

\* C8: the string stored for a price that is not below zero writes the price
\* rounded to nine fractional digits, has at most nine fractional digits,
\* does not end in "0" behind a decimal point, does not end in "." and is
\* not empty; 1.23 gives "1.23", 5 gives "5", 0.000000001 gives
\* "0.000000001" and 0 gives "0".
C8_StrippedFixedPoint ==
    Resolved =>
        LET p == prices[1].price
            F == Stored
        IN  /\ F # <<>>
            /\ F[Len(F)] # "."
            /\ (\E i \in 1..Len(F) : F[i] = ".") => F[Len(F)] # "0"
            /\ \A i \in 1..Len(F) : F[i] = "." => Len(F) - i <= 9
            /\ ValueOf(F) = Nearest(p)
            /\ p = Dec(FALSE, 1, 230000000, 0) => F = <<"1", ".", "2", "3">>
            /\ p = Dec(FALSE, 5, 0, 0) => F = <<"5">>
            /\ p = Dec(FALSE, 0, 1, 0)
                  => F = <<"0", ".", "0", "0", "0", "0", "0", "0", "0", "0", "1">>
            /\ p = Dec(FALSE, 0, 0, 0) => F = <<"0">>

\* C8 witness: 1.230000000 stored as "1.23".
C8_Witness ==
    /\ Resolved
    /\ prices[1].price = Dec(FALSE, 1, 230000000, 0)
    /\ Stored = <<"1", ".", "2", "3">>

\* C9 as stated: in all four adapters no address occurs twice in the
\* collection handed to get_prices_from_addrs, and each of its addresses is
\* the table address of a requested symbol, "ETH" read as "WETH" under ARKEN.
C9_UniqueAddresses ==
    \A r \in 1..Len(requests) :
        /\ \A i, j \in 1..Len(requests[r]) : requests[r][i] = requests[r][j] => i = j
        /\ \A i \in 1..Len(requests[r]) : \E n \in 1..Len(symbols) :
              LET s == IF UsesAlias(adapter) /\ symbols[n] = "ETH" THEN "WETH" ELSE symbols[n]
              IN  s \in DOMAIN Table /\ Table[s] = requests[r][i]

\* C10: an invocation never issues a second request; from the call of the
\* fetcher on it has issued exactly one, for all addresses of the query at
\* once, also when the query is empty and also when the transport failed;
\* nothing is written before it.
C10_OneRequest ==
    /\ Len(requests) <= 1
    /\ pc \notin {"main", "fetch"} =>
          /\ Len(requests) = 1
          /\ requests[1] = addrs
          /\ \A n \in 1..Len(symbols) :
                LET s == IF UsesAlias(adapter) /\ symbols[n] = "ETH" THEN "WETH" ELSE symbols[n]
                IN  s \in DOMAIN Table => \E i \in 1..Len(requests[1]) : requests[1][i] = Table[s]
    /\ (stdout # <<>> \/ stderr # <<>>) => Len(requests) = 1

\* C10 witness: nothing requested is in the table, and the one request is
\* made all the same, with an empty address list.
C10_Witness ==
    /\ Succeeded
    /\ symbols # <<>>
    /\ requests = <<(<<>>)>>

=============================================================================
